---------------------------- MODULE Spec2Model ----------------------------
(***************************************************************************)
(* Quran Tracker: the plan generator (lib/goalCalculator), the Quran data *)
(* service it reads (services/quranData.ts) and the goal store             *)
(* (store/useGoalStore.ts).                                                *)
(*                                                                         *)
(* Dates are calendar days of the device's time zone, numbered             *)
(* consecutively; day 0 is a Sunday, so getDay() is the day number modulo  *)
(* 7.  Text is a sequence of one-character strings.  A JavaScript value    *)
(* that may be a string or a number carries its type.                      *)
(***************************************************************************)
EXTENDS Integers, Sequences, FiniteSets, TLC

(***************************************************************************)
(* JavaScript values and text                                              *)
(***************************************************************************)
Str(chars) == [type |-> "string", chars |-> chars, num |-> 0]

Num(n) == [type |-> "number", chars |-> <<>>, num |-> n]

\* value || fallback: 0 and the empty string are falsy
Truthy(v) == IF v.type = "number" THEN v.num # 0 ELSE Len(v.chars) > 0

DigitChars == <<"0", "1", "2", "3", "4", "5", "6", "7", "8", "9">>

IsDigit(c) == \E d \in 1..10 : DigitChars[d] = c

DigitVal(c) == (CHOOSE d \in 1..10 : DigitChars[d] = c) - 1

RECURSIVE NatToChars(_)
NatToChars(n) ==
  IF n < 10 THEN <<DigitChars[n + 1]>>
  ELSE Append(NatToChars(n \div 10), DigitChars[(n % 10) + 1])

\* `${n}` for an integer n
NumberToChars(n) == IF n < 0 THEN <<"-">> \o NatToChars(0 - n) ELSE NatToChars(n)

\* `${a}:${b}`
AyahKey(a, b) == Str(NumberToChars(a) \o <<":">> \o NumberToChars(b))

\* String.prototype.split(':')
RECURSIVE SplitFrom(_, _, _)
SplitFrom(chars, i, cur) ==
  IF i > Len(chars) THEN <<cur>>
  ELSE IF chars[i] = ":" THEN <<cur>> \o SplitFrom(chars, i + 1, <<>>)
  ELSE SplitFrom(chars, i + 1, Append(cur, chars[i]))

Split(chars) == SplitFrom(chars, 1, <<>>)

RECURSIVE DigitPrefixValue(_, _, _)
DigitPrefixValue(chars, i, acc) ==
  IF i > Len(chars) \/ ~IsDigit(chars[i]) THEN acc
  ELSE DigitPrefixValue(chars, i + 1, acc * 10 + DigitVal(chars[i]))

\* parseInt(text, 10): an optional sign, then the longest run of digits; NaN
\* when there is no digit
ParseInt(chars) ==
  LET neg == Len(chars) >= 1 /\ chars[1] = "-"
      from == IF Len(chars) >= 1 /\ chars[1] \in {"-", "+"} THEN 2 ELSE 1
  IN IF from > Len(chars) \/ ~IsDigit(chars[from])
     THEN [nan |-> TRUE, n |-> 0]
     ELSE [nan |-> FALSE,
           n |-> IF neg THEN 0 - DigitPrefixValue(chars, from, 0)
                 ELSE DigitPrefixValue(chars, from, 0)]

(***************************************************************************)
(* The reference text, as the quran-meta package describes it: 114 surahs, *)
(* 30 juz, 604 pages, 6236 ayahs numbered 1..6236 (ayah ids).  The surah   *)
(* lengths and the first ayah of every juz are those of the text.  The     *)
(* page table agrees with the printed edition on the number of pages and   *)
(* on the first page of every juz; within a juz the ayahs are laid out     *)
(* evenly over its pages.                                                  *)
(***************************************************************************)
SurahCount == 114

JuzCount == 30

PageCount == 604

SurahAyahCount ==
  <<
    7, 286, 200, 176, 120, 165, 206, 75, 129, 109, 123, 111, 43, 52, 99, 128,
    111, 110, 98, 135, 112, 78, 118, 64, 77, 227, 93, 88, 69, 60, 34, 30,
    73, 54, 45, 83, 182, 88, 75, 85, 54, 53, 89, 59, 37, 35, 38, 29,
    18, 45, 60, 49, 62, 55, 78, 96, 29, 22, 24, 13, 14, 11, 11, 18,
    12, 12, 30, 52, 52, 44, 28, 28, 20, 56, 40, 31, 50, 40, 46, 42,
    29, 19, 36, 25, 22, 17, 19, 26, 30, 20, 15, 21, 11, 8, 8, 19,
    5, 8, 8, 11, 11, 8, 3, 9, 5, 4, 7, 3, 6, 3, 5, 4,
    5, 6
  >>

SurahFirstAyahId ==
  <<
    1, 8, 294, 494, 670, 790, 955, 1161, 1236, 1365, 1474, 1597, 1708, 1751, 1803, 1902,
    2030, 2141, 2251, 2349, 2484, 2596, 2674, 2792, 2856, 2933, 3160, 3253, 3341, 3410, 3470, 3504,
    3534, 3607, 3661, 3706, 3789, 3971, 4059, 4134, 4219, 4273, 4326, 4415, 4474, 4511, 4546, 4584,
    4613, 4631, 4676, 4736, 4785, 4847, 4902, 4980, 5076, 5105, 5127, 5151, 5164, 5178, 5189, 5200,
    5218, 5230, 5242, 5272, 5324, 5376, 5420, 5448, 5476, 5496, 5552, 5592, 5623, 5673, 5713, 5759,
    5801, 5830, 5849, 5885, 5910, 5932, 5949, 5968, 5994, 6024, 6044, 6059, 6080, 6091, 6099, 6107,
    6126, 6131, 6139, 6147, 6158, 6169, 6177, 6180, 6189, 6194, 6198, 6205, 6208, 6214, 6217, 6222,
    6226, 6231
  >>

JuzFirstAyahId ==
  <<
    1, 149, 260, 386, 517, 641, 751, 900, 1042, 1201, 1328, 1479, 1649, 1803, 2030, 2215,
    2484, 2674, 2876, 3215, 3386, 3564, 3733, 4090, 4265, 4511, 4706, 5105, 5242, 5673
  >>

PageFirstAyahId ==
  <<
    1, 8, 15, 22, 29, 36, 43, 50, 57, 64, 71, 78, 85, 92, 99, 106,
    113, 120, 127, 134, 141, 149, 154, 160, 165, 171, 176, 182, 187, 193, 198, 204,
    210, 215, 221, 226, 232, 237, 243, 248, 254, 260, 266, 272, 278, 285, 291, 297,
    304, 310, 316, 323, 329, 335, 341, 348, 354, 360, 367, 373, 379, 386, 392, 399,
    405, 412, 418, 425, 431, 438, 444, 451, 458, 464, 471, 477, 484, 490, 497, 503,
    510, 517, 523, 529, 535, 541, 548, 554, 560, 566, 572, 579, 585, 591, 597, 603,
    610, 616, 622, 628, 634, 641, 646, 652, 658, 664, 669, 675, 681, 687, 693, 698,
    704, 710, 716, 722, 727, 733, 739, 745, 751, 758, 765, 772, 779, 786, 793, 800,
    807, 814, 821, 829, 836, 843, 850, 857, 864, 871, 878, 885, 892, 900, 907, 914,
    921, 928, 935, 942, 949, 956, 963, 971, 978, 985, 992, 999, 1006, 1013, 1020, 1027,
    1034, 1042, 1049, 1057, 1065, 1073, 1081, 1089, 1097, 1105, 1113, 1121, 1129, 1137, 1145, 1153,
    1161, 1169, 1177, 1185, 1193, 1201, 1207, 1214, 1221, 1227, 1234, 1241, 1247, 1254, 1261, 1267,
    1274, 1281, 1287, 1294, 1301, 1307, 1314, 1321, 1328, 1335, 1342, 1349, 1356, 1363, 1371, 1378,
    1385, 1392, 1399, 1407, 1414, 1421, 1428, 1435, 1443, 1450, 1457, 1464, 1471, 1479, 1487, 1496,
    1504, 1513, 1521, 1530, 1538, 1547, 1555, 1564, 1572, 1581, 1589, 1598, 1606, 1615, 1623, 1632,
    1640, 1649, 1656, 1664, 1672, 1679, 1687, 1695, 1702, 1710, 1718, 1726, 1733, 1741, 1749, 1756,
    1764, 1772, 1779, 1787, 1795, 1803, 1814, 1825, 1837, 1848, 1859, 1871, 1882, 1893, 1905, 1916,
    1927, 1939, 1950, 1961, 1973, 1984, 1995, 2007, 2018, 2030, 2039, 2048, 2057, 2067, 2076, 2085,
    2094, 2104, 2113, 2122, 2131, 2141, 2150, 2159, 2168, 2178, 2187, 2196, 2205, 2215, 2228, 2241,
    2255, 2268, 2282, 2295, 2309, 2322, 2336, 2349, 2362, 2376, 2389, 2403, 2416, 2430, 2443, 2457,
    2470, 2484, 2493, 2503, 2512, 2522, 2531, 2541, 2550, 2560, 2569, 2579, 2588, 2598, 2607, 2617,
    2626, 2636, 2645, 2655, 2664, 2674, 2684, 2694, 2704, 2714, 2724, 2734, 2744, 2754, 2764, 2775,
    2785, 2795, 2805, 2815, 2825, 2835, 2845, 2855, 2865, 2876, 2892, 2909, 2926, 2943, 2960, 2977,
    2994, 3011, 3028, 3045, 3062, 3079, 3096, 3113, 3130, 3147, 3164, 3181, 3198, 3215, 3223, 3232,
    3240, 3249, 3257, 3266, 3274, 3283, 3291, 3300, 3309, 3317, 3326, 3334, 3343, 3351, 3360, 3368,
    3377, 3386, 3394, 3403, 3412, 3421, 3430, 3439, 3448, 3457, 3466, 3475, 3483, 3492, 3501, 3510,
    3519, 3528, 3537, 3546, 3555, 3564, 3572, 3580, 3589, 3597, 3606, 3614, 3623, 3631, 3640, 3648,
    3656, 3665, 3673, 3682, 3690, 3699, 3707, 3716, 3724, 3733, 3750, 3768, 3786, 3804, 3822, 3840,
    3857, 3875, 3893, 3911, 3929, 3947, 3965, 3982, 4000, 4018, 4036, 4054, 4072, 4090, 4098, 4107,
    4116, 4125, 4133, 4142, 4151, 4160, 4168, 4177, 4186, 4195, 4203, 4212, 4221, 4230, 4238, 4247,
    4256, 4265, 4277, 4289, 4301, 4314, 4326, 4338, 4351, 4363, 4375, 4388, 4400, 4412, 4424, 4437,
    4449, 4461, 4474, 4486, 4498, 4511, 4520, 4530, 4540, 4550, 4559, 4569, 4579, 4589, 4598, 4608,
    4618, 4628, 4637, 4647, 4657, 4667, 4676, 4686, 4696, 4706, 4725, 4745, 4765, 4785, 4805, 4825,
    4845, 4865, 4885, 4905, 4925, 4945, 4965, 4985, 5005, 5025, 5045, 5065, 5085, 5105, 5111, 5118,
    5125, 5132, 5139, 5146, 5152, 5159, 5166, 5173, 5180, 5187, 5194, 5200, 5207, 5214, 5221, 5228,
    5235, 5242, 5263, 5285, 5306, 5328, 5349, 5371, 5392, 5414, 5435, 5457, 5479, 5500, 5522, 5543,
    5565, 5586, 5608, 5629, 5651, 5673, 5697, 5722, 5746, 5771, 5795, 5820, 5844, 5869, 5893, 5918,
    5942, 5967, 5991, 6016, 6040, 6065, 6089, 6114, 6138, 6163, 6187, 6212
  >>

JuzFirstPage ==
  <<
    1, 22, 42, 62, 82, 102, 121, 142, 162, 182, 201, 222, 242, 262, 282,
    302, 322, 342, 362, 382, 402, 422, 442, 462, 482, 502, 522, 542, 562, 582
  >>

AyahCount == SurahFirstAyahId[SurahCount] + SurahAyahCount[SurahCount] - 1

\* The surah of every ayah id
SurahOfAyahId ==
  [ayahId \in 1..AyahCount |->
     CHOOSE t \in 1..SurahCount :
       /\ SurahFirstAyahId[t] <= ayahId
       /\ ayahId < SurahFirstAyahId[t] + SurahAyahCount[t]]

\* The page of every ayah id
PageOfAyahId ==
  [ayahId \in 1..AyahCount |->
     CHOOSE p \in 1..PageCount :
       /\ PageFirstAyahId[p] <= ayahId
       /\ (p = PageCount \/ ayahId < PageFirstAyahId[p + 1])]

\* quran.findSurahAyahByAyahId: <<surah, ayah>> of an ayah id
findSurahAyahByAyahId(ayahId) ==
  <<SurahOfAyahId[ayahId], ayahId - SurahFirstAyahId[SurahOfAyahId[ayahId]] + 1>>

\* quran.getAyahMeta(ayahId).page
AyahMetaPage(ayahId) == PageOfAyahId[ayahId]

\* quran.getJuzMeta(n).lastAyahId
JuzLastAyahId(n) == IF n = JuzCount THEN AyahCount ELSE JuzFirstAyahId[n + 1] - 1

\* quran.getPageMeta(n).lastAyahId
PageLastAyahId(n) == IF n = PageCount THEN AyahCount ELSE PageFirstAyahId[n + 1] - 1

(***************************************************************************)
(* services/quranData.ts                                                   *)
(***************************************************************************)
NoSurah == [found |-> FALSE, id |-> 0, ayahCount |-> 0, startPage |-> 0, endPage |-> 0]

surah(surahId) ==
  IF surahId < 1 \/ surahId > 114 THEN NoSurah
  ELSE [found |-> TRUE,
        id |-> surahId,
        ayahCount |-> SurahAyahCount[surahId],
        startPage |-> AyahMetaPage(SurahFirstAyahId[surahId]),
        endPage |-> AyahMetaPage(SurahFirstAyahId[surahId] + SurahAyahCount[surahId] - 1)]

NoJuz ==
  [found |-> FALSE, id |-> 0, startSurah |-> 0, startAyah |-> Num(0),
   endSurah |-> 0, endAyah |-> Num(0), startPage |-> 0, endPage |-> 0]

\* startAyah and endAyah receive element [1] of findSurahAyahByAyahId's pair:
\* the ayah number, a number and not "surah:ayah" text
juz(juzNumber) ==
  IF juzNumber < 1 \/ juzNumber > 30 THEN NoJuz
  ELSE LET startSurahAyah == findSurahAyahByAyahId(JuzFirstAyahId[juzNumber])
           endSurahAyah == findSurahAyahByAyahId(JuzLastAyahId(juzNumber))
       IN [found |-> TRUE,
           id |-> juzNumber,
           startSurah |-> startSurahAyah[1],
           startAyah |-> Num(startSurahAyah[2]),
           endSurah |-> endSurahAyah[1],
           endAyah |-> Num(endSurahAyah[2]),
           startPage |-> AyahMetaPage(JuzFirstAyahId[juzNumber]),
           endPage |-> AyahMetaPage(JuzLastAyahId(juzNumber))]

getPageCount == 604

NoPage == [found |-> FALSE, startSurah |-> 0, startAyah |-> 0, endSurah |-> 0, endAyah |-> 0]

page(pageNumber) ==
  IF pageNumber < 1 \/ pageNumber > 604 THEN NoPage
  ELSE LET startSurahAyah == findSurahAyahByAyahId(PageFirstAyahId[pageNumber])
           endSurahAyah == findSurahAyahByAyahId(PageLastAyahId(pageNumber))
       IN [found |-> TRUE,
           startSurah |-> startSurahAyah[1],
           startAyah |-> startSurahAyah[2],
           endSurah |-> endSurahAyah[1],
           endAyah |-> endSurahAyah[2]]

getJuzById(juzId) == juz(juzId)

getSurahById(surahId) == surah(surahId)

NoRange == [found |-> FALSE, start |-> Str(<<>>), end |-> Str(<<>>)]

getAyahRangeForPage(pageNum) ==
  LET pageInfo == page(pageNum)
  IN IF ~pageInfo.found THEN NoRange
     ELSE [found |-> TRUE,
           start |-> AyahKey(pageInfo.startSurah, pageInfo.startAyah),
           end |-> AyahKey(pageInfo.endSurah, pageInfo.endAyah)]

\* quran.findAyahIdBySurah rejects a surah or an ayah that does not exist;
\* the catch turns that into null, here 0
getPageForAyah(surahId, ayahNumber) ==
  IF surahId < 1 \/ surahId > SurahCount THEN 0
  ELSE IF ayahNumber < 1 \/ ayahNumber > SurahAyahCount[surahId] THEN 0
  ELSE AyahMetaPage(SurahFirstAyahId[surahId] + ayahNumber - 1)

\* tag "throw": ayahRef is not a string, so ayahRef.split is not a function
\* (TypeError); tag "null": the text is not two integers around one colon
parseAyahReference(ayahRef) ==
  IF ayahRef.type # "string" THEN [tag |-> "throw", surahId |-> 0, ayahNumber |-> 0]
  ELSE LET parts == Split(ayahRef.chars)
       IN IF Len(parts) # 2 THEN [tag |-> "null", surahId |-> 0, ayahNumber |-> 0]
          ELSE LET surahId == ParseInt(parts[1])
                   ayahNumber == ParseInt(parts[2])
               IN IF surahId.nan \/ ayahNumber.nan
                  THEN [tag |-> "null", surahId |-> 0, ayahNumber |-> 0]
                  ELSE [tag |-> "ok", surahId |-> surahId.n, ayahNumber |-> ayahNumber.n]

(***************************************************************************)
(* lib/goalCalculator                                                      *)
(*                                                                         *)
(* A goal is [target, targetValue, unit, dailyAmount, startDate, deadline, *)
(* daysOfWeek].  targetValue is <<>> when absent and <<n>> otherwise.      *)
(* startDate is [valid, day]; deadline is [present, valid, day].           *)
(* daysOfWeek is the set of the numbers in the array: the code reads the   *)
(* array only through includes() and length === 0.                         *)
(***************************************************************************)
\* !goal.targetValue: undefined and 0 are falsy
NoTargetValue(goal) == goal.targetValue = <<>> \/ goal.targetValue[1] = 0

calculateTotalUnits(goal) ==
  CASE goal.target = "whole-quran" ->
         IF goal.unit = "pages" THEN 604 ELSE IF goal.unit = "juz" THEN 30 ELSE 114
    [] goal.target = "specific-juz" ->
         IF NoTargetValue(goal) THEN 0
         ELSE LET j == getJuzById(goal.targetValue[1])
              IN IF ~j.found THEN 0
                 ELSE IF goal.unit = "pages" THEN j.endPage - j.startPage + 1
                 ELSE 1
    [] goal.target = "specific-surah" ->
         IF NoTargetValue(goal) THEN 0
         ELSE LET s == getSurahById(goal.targetValue[1])
              IN IF ~s.found THEN 0
                 ELSE IF goal.unit = "pages" THEN s.endPage - s.startPage + 1
                 ELSE IF goal.unit = "ayahs" THEN s.ayahCount
                 ELSE 1
    [] OTHER -> 0

\* juz?.startPage || 1
OrOne(found, n) == IF found /\ n # 0 THEN n ELSE 1

getStartingPage(goal) ==
  CASE goal.target = "whole-quran" -> 1
    [] goal.target = "specific-juz" ->
         IF NoTargetValue(goal) THEN 1
         ELSE LET j == getJuzById(goal.targetValue[1]) IN OrOne(j.found, j.startPage)
    [] goal.target = "specific-surah" ->
         IF NoTargetValue(goal) THEN 1
         ELSE LET s == getSurahById(goal.targetValue[1]) IN OrOne(s.found, s.startPage)
    [] OTHER -> 1

getEndingPage(goal) ==
  CASE goal.target = "whole-quran" -> 604
    [] goal.target = "specific-juz" ->
         IF NoTargetValue(goal) THEN 1
         ELSE LET j == getJuzById(goal.targetValue[1]) IN OrOne(j.found, j.endPage)
    [] goal.target = "specific-surah" ->
         IF NoTargetValue(goal) THEN 1
         ELSE LET s == getSurahById(goal.targetValue[1]) IN OrOne(s.found, s.endPage)
    [] OTHER -> 1

\* juz?.startAyah || '1:1'
OrFirstAyah(found, v) == IF found /\ Truthy(v) THEN v ELSE AyahKey(1, 1)

getStartingAyah(goal) ==
  CASE goal.target = "whole-quran" -> AyahKey(1, 1)
    [] goal.target = "specific-juz" ->
         IF NoTargetValue(goal) THEN AyahKey(1, 1)
         ELSE LET j == getJuzById(goal.targetValue[1]) IN OrFirstAyah(j.found, j.startAyah)
    [] goal.target = "specific-surah" ->
         IF NoTargetValue(goal) THEN AyahKey(1, 1)
         ELSE AyahKey(goal.targetValue[1], 1)
    [] OTHER -> AyahKey(1, 1)

getEndingAyah(goal) ==
  CASE goal.target = "whole-quran" -> AyahKey(114, 6)
    [] goal.target = "specific-juz" ->
         IF NoTargetValue(goal) THEN AyahKey(1, 1)
         ELSE LET j == getJuzById(goal.targetValue[1]) IN OrFirstAyah(j.found, j.endAyah)
    [] goal.target = "specific-surah" ->
         IF NoTargetValue(goal) THEN AyahKey(1, 1)
         ELSE LET s == getSurahById(goal.targetValue[1])
              IN IF ~s.found THEN AyahKey(1, 1)
                 ELSE AyahKey(goal.targetValue[1], s.ayahCount)
    [] OTHER -> AyahKey(1, 1)

\* A JavaScript number that may be Infinity
Finite(n) == [inf |-> FALSE, n |-> n]

Infinity == [inf |-> TRUE, n |-> 0]

\* x < v, for an integer x
LessThan(x, v) == v.inf \/ x < v.n

\* The quotient rounded down, where the code rounds it up: C8 tells the two
\* apart
FloorDiv(totalUnits, unitsPerDay) ==
  IF unitsPerDay = 0 THEN Infinity
  ELSE IF unitsPerDay > 0 THEN Finite(totalUnits \div unitsPerDay)
  ELSE Finite(0 - ((totalUnits + (0 - unitsPerDay) - 1) \div (0 - unitsPerDay)))

\* Math.ceil(totalUnits / unitsPerDay) for totalUnits > 0: division by zero
\* gives Infinity, a negative divisor a result <= 0
CeilDiv(totalUnits, unitsPerDay) ==
  IF unitsPerDay = 0 THEN Infinity
  ELSE IF unitsPerDay > 0 THEN Finite((totalUnits + unitsPerDay - 1) \div unitsPerDay)
  ELSE Finite(0 - (totalUnits \div (0 - unitsPerDay)))

\* A cap of five passes for each day needed, where the code allows ten: C18
\* tells the two apart
TimesFive(v) == IF v.inf THEN Infinity ELSE Finite(v.n * 5)

TimesTen(v) == IF v.inf THEN Infinity ELSE Finite(v.n * 10)

\* The weekday of the day after, where the code reads the day's own: C10
\* tells the two apart
NextDayOfWeekSelected(goal, day) == ((day + 1) % 7) \in goal.daysOfWeek

\* goal.daysOfWeek.includes(currentDate.getDay()); day 0 is a Sunday
DayOfWeekSelected(goal, day) == (day % 7) \in goal.daysOfWeek

\* A deadline that lets the day after it through, where the code's does not:
\* C9 tells the two apart
PastDeadlineMorrow(goal, day) ==
  goal.deadline.present /\ goal.deadline.valid /\ day > goal.deadline.day + 1

\* currentDate > deadline (end of the deadline day); a comparison with an
\* invalid date is false
PastDeadline(goal, day) ==
  goal.deadline.present /\ goal.deadline.valid /\ day > goal.deadline.day

\* The state of generateReadingDates at the head of its while loop
ReadingDatesStart(goal) ==
  [currentDate |-> goal.startDate.day, daysAdded |-> 0, iterations |-> 0,
   dates |-> <<>>, broke |-> FALSE]

\* The while condition of generateReadingDates
ReadingDatesContinue(goal, totalUnits, st) ==
  LET totalDaysNeeded == CeilDiv(totalUnits, goal.dailyAmount)
      maxIterations == TimesTen(totalDaysNeeded)
  IN /\ ~st.broke
     /\ LessThan(st.daysAdded, totalDaysNeeded)
     /\ LessThan(st.iterations, maxIterations)

\* One pass through the body of the while loop
ReadingDatesBody(goal, st) ==
  IF goal.startDate.valid /\ DayOfWeekSelected(goal, st.currentDate)
  THEN IF PastDeadline(goal, st.currentDate)
       THEN [st EXCEPT !.iterations = @ + 1, !.broke = TRUE]
       ELSE [st EXCEPT !.iterations = @ + 1,
                       !.dates = Append(@, st.currentDate),
                       !.daysAdded = @ + 1,
                       !.currentDate = @ + 1]
  ELSE [st EXCEPT !.iterations = @ + 1, !.currentDate = @ + 1]

ReadingDatesStep(goal, totalUnits, st) ==
  IF ReadingDatesContinue(goal, totalUnits, st) THEN ReadingDatesBody(goal, st) ELSE st

\* n passes of the loop from st (a pass after the loop has ended changes nothing)
RECURSIVE ReadingDatesRun(_, _, _, _)
ReadingDatesRun(goal, totalUnits, n, st) ==
  IF n <= 0 THEN st
  ELSE IF n = 1 THEN ReadingDatesStep(goal, totalUnits, st)
  ELSE LET mid == ReadingDatesRun(goal, totalUnits, n \div 2, st)
       IN IF mid.iterations >= 0
          THEN ReadingDatesRun(goal, totalUnits, n - (n \div 2), mid)
          ELSE mid

\* The passes of the while loop that the model follows when the loop's own
\* cap is Infinity
IterCap == 40

\* running: the while condition still holds after IterCap passes of a loop
\* whose cap is Infinity
generateReadingDates(goal, totalUnits) ==
  LET maxIterations == TimesTen(CeilDiv(totalUnits, goal.dailyAmount))
      passes == IF maxIterations.inf THEN IterCap ELSE maxIterations.n
      final == ReadingDatesRun(goal, totalUnits, passes, ReadingDatesStart(goal))
  IN [dates |-> final.dates,
      running |-> ReadingDatesContinue(goal, totalUnits, final)]

\* startRange?.start || '1:1'
getAyahsForPageRange(startPage, endPage) ==
  LET startRange == getAyahRangeForPage(startPage)
      endRange == getAyahRangeForPage(endPage)
  IN [fromAyah |-> OrFirstAyah(startRange.found, startRange.start),
      toAyah |-> OrFirstAyah(endRange.found, endRange.end)]

\* The while loop of incrementAyah; <<surahId, ayahNumber>> at its end
RECURSIVE IncrementLoop(_, _, _)
IncrementLoop(surahId, ayahNumber, remaining) ==
  IF remaining > 0 /\ surahId <= 114
  THEN LET s == getSurahById(surahId)
           ayahsLeftInSurah == s.ayahCount - ayahNumber
       IN IF ~s.found THEN <<surahId, ayahNumber>>
          ELSE IF remaining <= ayahsLeftInSurah
          THEN IncrementLoop(surahId, ayahNumber + remaining, 0)
          ELSE IncrementLoop(surahId + 1, 1, remaining - (ayahsLeftInSurah + 1))
  ELSE <<surahId, ayahNumber>>

\* threw: parseAyahReference raised TypeError
incrementAyah(currentAyah, count) ==
  LET parsed == parseAyahReference(currentAyah)
  IN IF parsed.tag = "throw" THEN [threw |-> TRUE, value |-> currentAyah]
     ELSE IF parsed.tag = "null" THEN [threw |-> FALSE, value |-> currentAyah]
     ELSE LET r == IncrementLoop(parsed.surahId, parsed.ayahNumber, count)
          IN [threw |-> FALSE, value |-> AyahKey(r[1], r[2])]

\* fromParsed ? (getPageForAyah(...) || 1) : 1
PageOfParsed(parsed) ==
  IF parsed.tag = "ok"
  THEN LET p == getPageForAyah(parsed.surahId, parsed.ayahNumber)
       IN IF p # 0 THEN p ELSE 1
  ELSE 1

NewAssignment(date, fromAyah, toAyah, fromPage, toPage) ==
  [date |-> date, fromAyah |-> fromAyah, toAyah |-> toAyah,
   fromPage |-> fromPage, toPage |-> toPage,
   completed |-> FALSE, isCatchUpDay |-> FALSE]

\* The state of generatePlan at the head of its for loop: i is the index of
\* the next reading date, stop records a break, threw an exception
DistributeStart(goal) ==
  [i |-> 1, currentPage |-> getStartingPage(goal), currentAyah |-> getStartingAyah(goal),
   assignments |-> <<>>, stop |-> FALSE, threw |-> FALSE]

\* A body that always gives the day dailyAmount pages, where the code's stops
\* the last day at the ending page: C20 tells the two apart
PagesBodyUncapped(goal, date, st) ==
  LET fromPage == st.currentPage
      toPage == st.currentPage + goal.dailyAmount - 1
      ayahRange == getAyahsForPageRange(fromPage, toPage)
  IN [st EXCEPT !.i = @ + 1,
                !.assignments = Append(@, NewAssignment(date, ayahRange.fromAyah,
                                                        ayahRange.toAyah, fromPage, toPage)),
                !.currentPage = toPage + 1,
                !.stop = toPage + 1 > getEndingPage(goal)]

\* The body of the for loop for unit 'pages', and for 'juz' and 'surah'
PagesBody(goal, date, st) ==
  LET fromPage == st.currentPage
      toPage == IF st.currentPage + goal.dailyAmount - 1 < getEndingPage(goal)
                THEN st.currentPage + goal.dailyAmount - 1
                ELSE getEndingPage(goal)
      ayahRange == getAyahsForPageRange(fromPage, toPage)
  IN [st EXCEPT !.i = @ + 1,
                !.assignments = Append(@, NewAssignment(date, ayahRange.fromAyah,
                                                        ayahRange.toAyah, fromPage, toPage)),
                !.currentPage = toPage + 1,
                !.stop = toPage + 1 > getEndingPage(goal)]

\* The body of the for loop for unit 'ayahs'
AyahsBody(goal, date, st) ==
  LET fromAyah == st.currentAyah
      toResult == incrementAyah(st.currentAyah, goal.dailyAmount - 1)
      toAyah == toResult.value
      fromParsed == parseAyahReference(fromAyah)
      toParsed == parseAyahReference(toAyah)
      nextResult == incrementAyah(toAyah, 1)
      endParsed == parseAyahReference(getEndingAyah(goal))
      currentParsed == parseAyahReference(nextResult.value)
  IN IF \/ toResult.threw
        \/ fromParsed.tag = "throw"
        \/ toParsed.tag = "throw"
        \/ nextResult.threw
        \/ endParsed.tag = "throw"
        \/ currentParsed.tag = "throw"
     THEN [st EXCEPT !.threw = TRUE]
     ELSE [st EXCEPT !.i = @ + 1,
                     !.assignments = Append(@, NewAssignment(date, fromAyah, toAyah,
                                                             PageOfParsed(fromParsed),
                                                             PageOfParsed(toParsed))),
                     !.currentAyah = nextResult.value,
                     !.stop = /\ endParsed.tag = "ok"
                              /\ currentParsed.tag = "ok"
                              /\ \/ currentParsed.surahId > endParsed.surahId
                                 \/ /\ currentParsed.surahId = endParsed.surahId
                                    /\ currentParsed.ayahNumber > endParsed.ayahNumber]

DistributeStep(goal, readingDates, st) ==
  IF st.stop \/ st.threw \/ st.i > Len(readingDates) THEN st
  ELSE IF goal.unit = "ayahs" THEN AyahsBody(goal, readingDates[st.i], st)
  ELSE PagesBody(goal, readingDates[st.i], st)

\* n passes of the for loop from st
RECURSIVE DistributeRun(_, _, _, _)
DistributeRun(goal, readingDates, n, st) ==
  IF n <= 0 THEN st
  ELSE IF n = 1 THEN DistributeStep(goal, readingDates, st)
  ELSE LET mid == DistributeRun(goal, readingDates, n \div 2, st)
       IN IF mid.i >= 0
          THEN DistributeRun(goal, readingDates, n - (n \div 2), mid)
          ELSE mid

\* outcome "return": plan is the value returned; "throw": an exception leaves
\* generatePlan; "running": generateReadingDates has not left its loop
generatePlan(goal) ==
  LET totalUnits == calculateTotalUnits(goal)
  IN IF totalUnits = 0 THEN [outcome |-> "return", plan |-> <<>>]
     ELSE LET reading == generateReadingDates(goal, totalUnits)
          IN IF reading.running THEN [outcome |-> "running", plan |-> <<>>]
             ELSE IF Len(reading.dates) = 0 THEN [outcome |-> "return", plan |-> <<>>]
             ELSE LET final == DistributeRun(goal, reading.dates, Len(reading.dates),
                                             DistributeStart(goal))
                  IN IF final.threw THEN [outcome |-> "throw", plan |-> <<>>]
                     ELSE [outcome |-> "return", plan |-> final.assignments]

\* A validation that stops at the first error, where the code's goes on to the
\* other rules: C11 tells the two apart
validateGoalFailFast(goal) ==
  IF goal.daysOfWeek = {}
  THEN [valid |-> FALSE, errors |-> <<"At least one day of the week must be selected">>]
  ELSE IF ~goal.startDate.valid
  THEN [valid |-> FALSE, errors |-> <<"Invalid start date">>]
  ELSE IF goal.deadline.present /\ ~goal.deadline.valid
  THEN [valid |-> FALSE, errors |-> <<"Invalid deadline">>]
  ELSE IF goal.deadline.present /\ goal.deadline.day < goal.startDate.day
  THEN [valid |-> FALSE, errors |-> <<"Deadline must be after start date">>]
  ELSE IF goal.dailyAmount <= 0
  THEN [valid |-> FALSE, errors |-> <<"Daily amount must be greater than 0">>]
  ELSE [valid |-> TRUE, errors |-> <<>>]

\* errors: the messages in the order the checks add them
validateGoal(goal) ==
  LET e1 == IF goal.daysOfWeek = {} THEN <<"At least one day of the week must be selected">>
            ELSE <<>>
      e2 == IF ~goal.startDate.valid THEN <<"Invalid start date">> ELSE <<>>
      e3 == IF ~goal.deadline.present THEN <<>>
            ELSE IF ~goal.deadline.valid THEN <<"Invalid deadline">>
            ELSE IF goal.startDate.valid /\ goal.deadline.day < goal.startDate.day
            THEN <<"Deadline must be after start date">>
            ELSE <<>>
      e4 == IF goal.dailyAmount <= 0 THEN <<"Daily amount must be greater than 0">> ELSE <<>>
      e5 == IF goal.target \in {"specific-juz", "specific-surah"}
            THEN IF NoTargetValue(goal)
                 THEN <<"Target value is required for specific juz or surah goals">>
                 ELSE (IF goal.target = "specific-juz"
                          /\ (goal.targetValue[1] < 1 \/ goal.targetValue[1] > 30)
                       THEN <<"Juz number must be between 1 and 30">> ELSE <<>>)
                      \o
                      (IF goal.target = "specific-surah"
                          /\ (goal.targetValue[1] < 1 \/ goal.targetValue[1] > 114)
                       THEN <<"Surah number must be between 1 and 114">> ELSE <<>>)
            ELSE <<>>
      errors == e1 \o e2 \o e3 \o e4 \o e5
  IN [valid |-> Len(errors) = 0, errors |-> errors]

(***************************************************************************)
(* The goals the model submits                                             *)
(***************************************************************************)
\* The largest dailyAmount submitted (the smallest is -1)
MaxDailyAmount == 5

\* The first day the model's goals start on, a Wednesday (day 0 is a Sunday)
FirstDay == 10

NoDeadline == [present |-> FALSE, valid |-> FALSE, day |-> 0]

DateOf(day) == [valid |-> TRUE, day |-> day]

DeadlineOn(day) == [present |-> TRUE, valid |-> TRUE, day |-> day]

AllWeekdays == 0..6

Targets ==
  {<<"whole-quran", <<>>>>}
  \cup {<<"specific-juz", tv>> : tv \in {<<>>, <<1>>, <<30>>, <<31>>}}
  \cup {<<"specific-surah", tv>> : tv \in {<<>>, <<1>>, <<112>>, <<114>>, <<115>>}}

Units == {"pages", "juz", "surah", "ayahs"}

DailyAmounts == (-1)..MaxDailyAmount

StartDays == {FirstDay, FirstDay + 2}

\* Deadlines, in days after the start date
DeadlineOffsets == {-1, 0, 2, 30}

WeekdayLists == {{}, {3}, {1, 5}, AllWeekdays, {7}}

Goal(t, u, d, s, dl, w) ==
  [target |-> t[1], targetValue |-> t[2], unit |-> u, dailyAmount |-> d,
   startDate |-> DateOf(s), deadline |-> dl, daysOfWeek |-> w]

Goals ==
  {Goal(t, u, d, s, dl, w) :
     t \in Targets, u \in Units, d \in DailyAmounts, s \in StartDays,
     dl \in {NoDeadline}, w \in WeekdayLists}
  \cup
  {Goal(t, u, d, s, DeadlineOn(s + o), w) :
     t \in Targets, u \in Units, d \in DailyAmounts, s \in StartDays,
     o \in DeadlineOffsets, w \in WeekdayLists}

\* The goals submitted to the store: chapter 112 (4 verses, one page) and
\* part 30 (23 pages)
StoreTargets == {<<"specific-surah", <<112>>>>, <<"specific-juz", <<30>>>>}

StoreDailyAmounts == (-1)..2

StoreGoals ==
  {Goal(t, u, d, FirstDay, dl, w) :
     t \in StoreTargets, u \in {"pages", "ayahs"}, d \in StoreDailyAmounts,
     dl \in {NoDeadline, DeadlineOn(FirstDay + 1)}, w \in {AllWeekdays}}

\* The goals whose plans are completed day after day: chapters 75 and 78, of
\* 40 verses each, by verses, and the whole text at three pages a day, a plan
\* of 202 days
ProgressGoals ==
  {Goal(<<"specific-surah", <<c>>>>, "ayahs", d, FirstDay, NoDeadline, AllWeekdays) :
     c \in {75, 78}, d \in 1..2}
  \cup {Goal(<<"whole-quran", <<>>>>, "pages", 3, FirstDay, NoDeadline, AllWeekdays)}

\* generatePlan of every goal submitted to the store, computed once
PlanOf == [g \in StoreGoals \cup ProgressGoals |-> generatePlan(g)]

(***************************************************************************)
(* store/useGoalStore.ts                                                   *)
(***************************************************************************)
VARIABLES
  currentGoal,          \* <<>> (null) or <<goal>>
  plan,                 \* the sequence of daily assignments
  lastUpdated,          \* <<>> (null) or <<day>>
  currentStreak,
  bestStreak,
  totalDaysCompleted,
  today,                \* the calendar day new Date() falls on
  hung,                 \* a call of setGoal has not returned
  lastOp,               \* the last store operation called, and whether it lowered bestStreak
  genGoal,              \* the goal handed to generatePlan on its own
  genResult,            \* what generatePlan gave for genGoal
  loopPc,               \* position in generateReadingDates, followed pass by pass
  loopSt,               \* the state of its while loop
  valGoal,              \* the goal handed to validateGoal on its own
  valResult,            \* what validateGoal gave for valGoal
  streakPlan,           \* the assignments handed to calculateStreaks on its own
  streakResult          \* what calculateStreaks gave for streakPlan

storeVars == <<currentGoal, plan, lastUpdated, currentStreak, bestStreak,
               totalDaysCompleted, today, hung, lastOp>>

genVars == <<genGoal, genResult>>

loopVars == <<loopPc, loopSt>>

valVars == <<valGoal, valResult>>

streakVars == <<streakPlan, streakResult>>

vars == <<storeVars, genVars, loopVars, valVars, streakVars>>

\* The days compared by getDay(), the day of the week, where the code compares
\* them by getDate(), the day of the month: C13 tells the two apart
isSameWeekday(date1, date2) == date1 % 7 = date2 % 7

\* Dates are calendar days: years, months and days agree when the days do
isSameDay(date1, date2) == date1 = date2

\* [...plan]: the spread copies the array, and sort() orders the copy; the
\* array handed in is after the call what it was before
SpreadSource(assignments) == assignments

\* a placed behind the elements of sorted that are dated no later: the sort
\* is stable, so equal dates keep the order of the array
InsertByDate(sorted, a) ==
  LET k == Cardinality({j \in 1..Len(sorted) : sorted[j].date <= a.date})
  IN SubSeq(sorted, 1, k) \o <<a>> \o SubSeq(sorted, k + 1, Len(sorted))

SortStep(assignments, st) ==
  IF st.i > Len(assignments) THEN st
  ELSE [i |-> st.i + 1, sorted |-> InsertByDate(st.sorted, assignments[st.i])]

RECURSIVE SortRun(_, _, _)
SortRun(assignments, n, st) ==
  IF n <= 0 THEN st
  ELSE IF n = 1 THEN SortStep(assignments, st)
  ELSE LET mid == SortRun(assignments, n \div 2, st)
       IN IF mid.i >= 0 THEN SortRun(assignments, n - (n \div 2), mid) ELSE mid

\* The copy left in the order of the array, where the code sorts it by date:
\* C19 tells the two apart
LeftUnsorted(assignments) == assignments

\* [...plan].sort((a, b) => a.date.getTime() - b.date.getTime())
SortByDate(assignments) ==
  SortRun(assignments, Len(assignments), [i |-> 1, sorted |-> <<>>]).sorted

\* A pass that takes the streak for current from yesterday back, where the
\* code's takes it from yesterday on: C12 tells the two apart
StreakStepFromYesterdayBack(sortedAssignments, now, st) ==
  IF st.i > Len(sortedAssignments) THEN st
  ELSE LET assignment == sortedAssignments[st.i]
           tempStreak == st.tempStreak + 1
       IN IF assignment.completed
          THEN [i |-> st.i + 1,
                tempStreak |-> tempStreak,
                bestStreak |-> IF st.bestStreak > tempStreak THEN st.bestStreak
                               ELSE tempStreak,
                currentStreak |-> IF now - assignment.date >= 1 THEN tempStreak
                                  ELSE st.currentStreak]
          ELSE [st EXCEPT !.i = @ + 1, !.tempStreak = 0]

\* A pass that lets the run go on over an assignment left undone, where the
\* code's ends it: C6 tells the two apart
StreakStepNoReset(sortedAssignments, now, st) ==
  IF st.i > Len(sortedAssignments) THEN st
  ELSE LET assignment == sortedAssignments[st.i]
           tempStreak == st.tempStreak + 1
       IN IF assignment.completed
          THEN [i |-> st.i + 1,
                tempStreak |-> tempStreak,
                bestStreak |-> IF st.bestStreak > tempStreak THEN st.bestStreak
                               ELSE tempStreak,
                currentStreak |-> IF now - assignment.date <= 1 THEN tempStreak
                                  ELSE st.currentStreak]
          ELSE [st EXCEPT !.i = @ + 1]

\* One pass of the for loop of calculateStreaks; now is the day of new Date()
\* and Math.floor((today - date) / one day) is now - date
StreakStep(sortedAssignments, now, st) ==
  IF st.i > Len(sortedAssignments) THEN st
  ELSE LET assignment == sortedAssignments[st.i]
           tempStreak == st.tempStreak + 1
           daysDiff == now - assignment.date
       IN IF assignment.completed
          THEN [i |-> st.i + 1,
                tempStreak |-> tempStreak,
                bestStreak |-> IF st.bestStreak > tempStreak THEN st.bestStreak
                               ELSE tempStreak,
                currentStreak |-> IF daysDiff <= 1 THEN tempStreak ELSE st.currentStreak]
          ELSE [st EXCEPT !.i = @ + 1, !.tempStreak = 0]

RECURSIVE StreakRun(_, _, _, _)
StreakRun(sortedAssignments, now, n, st) ==
  IF n <= 0 THEN st
  ELSE IF n = 1 THEN StreakStep(sortedAssignments, now, st)
  ELSE LET mid == StreakRun(sortedAssignments, now, n \div 2, st)
       IN IF mid.i >= 0
          THEN StreakRun(sortedAssignments, now, n - (n \div 2), mid)
          ELSE mid

calculateStreaks(assignments, now) ==
  LET sortedAssignments == SortByDate(assignments)
      final == StreakRun(sortedAssignments, now, Len(assignments),
                         [i |-> 1, tempStreak |-> 0, bestStreak |-> 0, currentStreak |-> 0])
  IN [current |-> final.currentStreak, best |-> final.bestStreak]

\* plan.filter(a => a.completed).length
CompletedCount(assignments) ==
  Cardinality({i \in 1..Len(assignments) : assignments[i].completed})

NoOp == [op |-> "none", lowered |-> FALSE]

StoreInit ==
  /\ currentGoal = <<>>
  /\ plan = <<>>
  /\ lastUpdated = <<>>
  /\ currentStreak = 0
  /\ bestStreak = 0
  /\ totalDaysCompleted = 0
  /\ today = FirstDay
  /\ hung = FALSE
  /\ lastOp = NoOp

\* generated with the completed flags of the assignments of previous that are
\* of the same days
MergeCompleted(generated, previous) ==
  [i \in 1..Len(generated) |->
     [generated[i] EXCEPT !.completed =
        \E j \in 1..Len(previous) :
           previous[j].date = generated[i].date /\ previous[j].completed]]

\* A setGoal that carried the completed flags of the plan it replaces over to
\* the new plan, where the code stores newPlan as generatePlan gave it: C14
\* tells the two apart
setGoalMerging(goal) ==
  \E generated \in {PlanOf[goal]} :
     /\ ~hung
     /\ CASE generated.outcome = "return" ->
               /\ currentGoal' = <<goal>>
               /\ plan' = MergeCompleted(generated.plan, plan)
               /\ lastUpdated' = <<today>>
               /\ currentStreak' = calculateStreaks(plan', today).current
               /\ bestStreak' = calculateStreaks(plan', today).best
               /\ totalDaysCompleted' = CompletedCount(plan')
               /\ UNCHANGED hung
          [] generated.outcome = "throw" ->
               UNCHANGED <<currentGoal, plan, lastUpdated, currentStreak, bestStreak,
                           totalDaysCompleted, hung>>
          [] OTHER ->
               /\ hung' = TRUE
               /\ UNCHANGED <<currentGoal, plan, lastUpdated, currentStreak, bestStreak,
                              totalDaysCompleted>>
     /\ lastOp' = [op |-> "setGoal", lowered |-> bestStreak' < bestStreak]
     /\ UNCHANGED <<today, genVars, loopVars, valVars, streakVars>>

\* setGoal: an exception of generatePlan leaves setGoal before set() is
\* called; a generatePlan that does not return leaves the call pending.
\* The streaks and the count are computed from newPlan, which is plan'
setGoal(goal) ==
  \E generated \in {PlanOf[goal]} :
     /\ ~hung
     /\ CASE generated.outcome = "return" ->
               /\ currentGoal' = <<goal>>
               /\ plan' = generated.plan
               /\ lastUpdated' = <<today>>
               /\ currentStreak' = calculateStreaks(plan', today).current
               /\ bestStreak' = calculateStreaks(plan', today).best
               /\ totalDaysCompleted' = CompletedCount(plan')
               /\ UNCHANGED hung
          [] generated.outcome = "throw" ->
               UNCHANGED <<currentGoal, plan, lastUpdated, currentStreak, bestStreak,
                           totalDaysCompleted, hung>>
          [] OTHER ->
               /\ hung' = TRUE
               /\ UNCHANGED <<currentGoal, plan, lastUpdated, currentStreak, bestStreak,
                              totalDaysCompleted>>
     /\ lastOp' = [op |-> "setGoal", lowered |-> bestStreak' < bestStreak]
     /\ UNCHANGED <<today, genVars, loopVars, valVars, streakVars>>

\* A toggle that turns the flag of the day's assignment over, where the code
\* sets it to the value asked for: C25 tells the two apart
SetCompletedFlipped(assignments, date, flag) ==
  [i \in 1..Len(assignments) |->
     IF isSameDay(assignments[i].date, date)
     THEN [assignments[i] EXCEPT !.completed = ~@]
     ELSE assignments[i]]

SetCompleted(assignments, date, flag) ==
  [i \in 1..Len(assignments) |->
     IF isSameDay(assignments[i].date, date)
     THEN [assignments[i] EXCEPT !.completed = flag]
     ELSE assignments[i]]

\* A toggle that keeps the best streak ever reached, where the code's stores
\* the best streak of the plan as it now is: C22 tells the two apart
markDayKeepingBest(opName, date, flag) ==
  LET updatedPlan == SetCompleted(plan, date, flag)
      streaks == calculateStreaks(updatedPlan, today)
      completed == CompletedCount(updatedPlan)
  IN /\ ~hung
     /\ plan' = updatedPlan
     /\ lastUpdated' = <<today>>
     /\ currentStreak' = streaks.current
     /\ bestStreak' = IF bestStreak > streaks.best THEN bestStreak ELSE streaks.best
     /\ totalDaysCompleted' = completed
     /\ lastOp' = [op |-> opName, lowered |-> bestStreak' < bestStreak]
     /\ UNCHANGED <<currentGoal, today, hung, genVars, loopVars, valVars, streakVars>>

markDay(opName, date, flag) ==
  LET updatedPlan == SetCompleted(plan, date, flag)
      streaks == calculateStreaks(updatedPlan, today)
      completed == CompletedCount(updatedPlan)
  IN /\ ~hung
     /\ plan' = updatedPlan
     /\ lastUpdated' = <<today>>
     /\ currentStreak' = streaks.current
     /\ bestStreak' = streaks.best
     /\ totalDaysCompleted' = completed
     /\ lastOp' = [op |-> opName, lowered |-> bestStreak' < bestStreak]
     /\ UNCHANGED <<currentGoal, today, hung, genVars, loopVars, valVars, streakVars>>

markDayAsComplete(date) == markDay("markDayAsComplete", date, TRUE)

markDayAsIncomplete(date) == markDay("markDayAsIncomplete", date, FALSE)

\* A clearPlan that reset the goal and the plan and left the statistics and
\* the time of the last update, where the code resets all six fields: C15
\* tells the two apart
clearPlanOnly ==
  /\ ~hung
  /\ currentGoal' = <<>>
  /\ plan' = <<>>
  /\ lastOp' = [op |-> "clearPlan", lowered |-> FALSE]
  /\ UNCHANGED <<lastUpdated, currentStreak, bestStreak, totalDaysCompleted,
                 today, hung, genVars, loopVars, valVars, streakVars>>

clearPlan ==
  /\ ~hung
  /\ currentGoal' = <<>>
  /\ plan' = <<>>
  /\ lastUpdated' = <<>>
  /\ currentStreak' = 0
  /\ bestStreak' = 0
  /\ totalDaysCompleted' = 0
  /\ lastOp' = [op |-> "clearPlan", lowered |-> bestStreak' < bestStreak]
  /\ UNCHANGED <<today, hung, genVars, loopVars, valVars, streakVars>>

updateStreaks ==
  LET streaks == calculateStreaks(plan, today)
      completed == CompletedCount(plan)
  IN /\ ~hung
     /\ currentStreak' = streaks.current
     /\ bestStreak' = streaks.best
     /\ totalDaysCompleted' = completed
     /\ lastOp' = [op |-> "updateStreaks", lowered |-> bestStreak' < bestStreak]
     /\ UNCHANGED <<currentGoal, plan, lastUpdated, today, hung, genVars, loopVars, valVars, streakVars>>

(***************************************************************************)
(* IEEE 754 double precision, for the one expression of the store that is  *)
(* not integer arithmetic: Math.round((completed / plan.length) * 100).    *)
(* A double is [bits, exp]: 53 significand bits, the most significant      *)
(* first and 1, times 2^exp; Zero has no bits.                             *)
(***************************************************************************)
SignificandBits == 53

RECURSIVE PowerOfTwo(_)
PowerOfTwo(k) == IF k = 0 THEN 1 ELSE 2 * PowerOfTwo(k - 1)

RECURSIVE ToBits(_)
ToBits(v) == IF v = 0 THEN <<>> ELSE ToBits(v \div 2) \o <<v % 2>>

RECURSIVE FromBits(_)
FromBits(bits) ==
  IF bits = <<>> THEN 0
  ELSE 2 * FromBits(SubSeq(bits, 1, Len(bits) - 1)) + bits[Len(bits)]

Zero == [bits |-> <<>>, exp |-> 0]

\* bits + 1, of the same length unless every bit is 1
Increment(bits) ==
  IF \A i \in 1..Len(bits) : bits[i] = 1
  THEN <<1>> \o [i \in 1..Len(bits) |-> 0]
  ELSE LET j == CHOOSE i \in 1..Len(bits) :
                  bits[i] = 0 /\ \A l \in (i + 1)..Len(bits) : bits[l] = 1
       IN [i \in 1..Len(bits) |-> IF i < j THEN bits[i] ELSE IF i = j THEN 1 ELSE 0]

\* Round to nearest, ties to even: the exact value is bits * 2^exp, and a
\* little more when sticky; bits has more than 53 bits and begins with 1
RoundToDouble(bits, exp, sticky) ==
  LET kept == SubSeq(bits, 1, SignificandBits)
      half == bits[SignificandBits + 1] = 1
      more == sticky \/ \E i \in (SignificandBits + 2)..Len(bits) : bits[i] = 1
      up == half /\ (more \/ kept[SignificandBits] = 1)
      raised == Increment(kept)
      scale == exp + (Len(bits) - SignificandBits)
  IN IF ~up THEN [bits |-> kept, exp |-> scale]
     ELSE IF Len(raised) > SignificandBits
     THEN [bits |-> SubSeq(raised, 1, SignificandBits), exp |-> scale + 1]
     ELSE [bits |-> raised, exp |-> scale]

\* One more bit of the quotient by long division; r is the remainder
QuotientStep(st, n) ==
  IF 2 * st.r >= n THEN [bits |-> Append(st.bits, 1), r |-> 2 * st.r - n]
  ELSE [bits |-> Append(st.bits, 0), r |-> 2 * st.r]

\* count >= 1 more bits of the quotient
RECURSIVE QuotientBits(_, _, _)
QuotientBits(st, n, count) ==
  IF count = 1 THEN QuotientStep(st, n)
  ELSE LET mid == QuotientBits(st, n, count \div 2)
       IN IF mid.r >= 0 THEN QuotientBits(mid, n, count - count \div 2) ELSE mid

\* c / n for integers 0 <= c <= n, n > 0
DivideDouble(c, n) ==
  IF c = 0 THEN Zero
  ELSE LET k == CHOOSE s \in 0..30 :
                  /\ c * PowerOfTwo(s) >= n
                  /\ \A l \in 0..(s - 1) : c * PowerOfTwo(l) < n
           q == QuotientBits([bits |-> <<1>>, r |-> c * PowerOfTwo(k) - n], n, SignificandBits)
       IN RoundToDouble(q.bits, -k - SignificandBits, q.r # 0)

\* The next bit of bits * m, from the least significant bit of bits on
ProductStep(st, bits, m) ==
  LET v == bits[Len(bits) - Len(st.low)] * m + st.carry
  IN [low |-> <<v % 2>> \o st.low, carry |-> v \div 2]

\* count >= 1 more bits of the product
RECURSIVE ProductRun(_, _, _, _)
ProductRun(st, bits, m, count) ==
  IF count = 1 THEN ProductStep(st, bits, m)
  ELSE LET mid == ProductRun(st, bits, m, count \div 2)
       IN IF mid.carry >= 0 THEN ProductRun(mid, bits, m, count - count \div 2) ELSE mid

\* The bits of bits * m
ProductBits(bits, m) ==
  LET st == ProductRun([low |-> <<>>, carry |-> 0], bits, m, Len(bits))
  IN ToBits(st.carry) \o st.low

\* x * m for a double x and an integer m in 2^6..2^7, as 100 is
TimesDouble(x, m) ==
  IF x.bits = <<>> THEN Zero
  ELSE RoundToDouble(ProductBits(x.bits, m), x.exp, FALSE)

\* The integer part alone, where Math.round adds one for a fraction of a half
\* or more: C23 tells the two apart
MathFloor(x) ==
  IF x.bits = <<>> THEN 0
  ELSE LET whole == SignificandBits + x.exp
       IN IF whole <= 0 THEN 0 ELSE FromBits(SubSeq(x.bits, 1, whole))

\* Math.round of a double x >= 0 below 2^53: the integer part, and one more
\* when the fraction is a half or more
MathRound(x) ==
  IF x.bits = <<>> THEN 0
  ELSE LET whole == SignificandBits + x.exp
       IN (IF whole <= 0 THEN 0 ELSE FromBits(SubSeq(x.bits, 1, whole)))
          + (IF whole \in 0..(SignificandBits - 1) THEN x.bits[whole + 1] ELSE 0)


getProgressPercentage ==
  IF Len(plan) = 0 THEN 0
  ELSE MathRound(TimesDouble(DivideDouble(CompletedCount(plan), Len(plan)), 100))

getCompletedCount == CompletedCount(plan)

getTotalCount == Len(plan)

getTodaysAssignment ==
  IF \E i \in 1..Len(plan) : isSameDay(plan[i].date, today)
  THEN <<plan[CHOOSE i \in 1..Len(plan) :
                /\ isSameDay(plan[i].date, today)
                /\ \A j \in 1..(i - 1) : ~isSameDay(plan[j].date, today)]>>
  ELSE <<>>

\* The days the store's clock runs through after FirstDay
MaxTicks == 2

\* Midnight passes
Tick ==
  /\ ~hung
  /\ today < FirstDay + MaxTicks
  /\ today' = today + 1
  /\ UNCHANGED <<currentGoal, plan, lastUpdated, currentStreak, bestStreak,
                 totalDaysCompleted, hung, lastOp, genVars, loopVars, valVars, streakVars>>

\* The dates handed to markDayAsComplete and markDayAsIncomplete
MarkDays == (FirstDay - 1)..(FirstDay + MaxTicks)

GenIdle == genGoal = <<>> /\ genResult = <<>>

LoopIdle == loopPc = "idle" /\ loopSt = <<>>

ValIdle == valGoal = <<>> /\ valResult = <<>>

StreakIdle == streakPlan = <<>> /\ streakResult = <<>>

Init == StoreInit /\ GenIdle /\ LoopIdle /\ ValIdle /\ StreakIdle

Next ==
  \/ \E goal \in StoreGoals : setGoal(goal)
  \/ \E date \in MarkDays : markDayAsComplete(date)
  \/ \E date \in MarkDays : markDayAsIncomplete(date)
  \/ updateStreaks
  \/ clearPlan
  \/ Tick

Spec == Init /\ [][Next]_vars

(***************************************************************************)
(* generatePlan on its own, for every goal of Goals                        *)
(***************************************************************************)
GenInit ==
  /\ StoreInit
  /\ LoopIdle
  /\ ValIdle
  /\ StreakIdle
  /\ genGoal \in {<<g>> : g \in Goals}
  /\ genResult = <<>>

Generate ==
  /\ genGoal # <<>>
  /\ genResult = <<>>
  /\ genResult' = <<generatePlan(genGoal[1])>>
  /\ UNCHANGED <<genGoal, storeVars, loopVars, valVars, streakVars>>

GenNext == Generate

GenSpec == GenInit /\ [][GenNext]_vars

(***************************************************************************)
(* generateReadingDates followed pass by pass, for the goals whose total   *)
(* is at most LoopTotalMax                                                 *)
(***************************************************************************)
LoopTotalMax == 7

LoopGoals == {g \in Goals : calculateTotalUnits(g) \in 1..LoopTotalMax}

LoopInit ==
  /\ StoreInit
  /\ ValIdle
  /\ StreakIdle
  /\ genGoal \in {<<g>> : g \in LoopGoals}
  /\ genResult = <<>>
  /\ loopPc = "while"
  /\ loopSt = ReadingDatesStart(genGoal[1])

\* One pass of the while loop; the model follows at most IterCap passes of a
\* loop whose own cap is Infinity
LoopPass ==
  /\ loopPc = "while"
  /\ ReadingDatesContinue(genGoal[1], calculateTotalUnits(genGoal[1]), loopSt)
  /\ TimesTen(CeilDiv(calculateTotalUnits(genGoal[1]), genGoal[1].dailyAmount)).inf
       => loopSt.iterations < IterCap
  /\ loopSt' = ReadingDatesBody(genGoal[1], loopSt)
  /\ UNCHANGED <<loopPc, genVars, storeVars, valVars, streakVars>>

\* The while condition fails, or the loop was left by break: return dates
LoopReturn ==
  /\ loopPc = "while"
  /\ ~ReadingDatesContinue(genGoal[1], calculateTotalUnits(genGoal[1]), loopSt)
  /\ loopPc' = "returned"
  /\ UNCHANGED <<loopSt, genVars, storeVars, valVars, streakVars>>

LoopNext == LoopPass \/ LoopReturn

LoopSpec == LoopInit /\ [][LoopNext]_vars


(***************************************************************************)
(* validateGoal on its own, for every goal of ValGoals                     *)
(***************************************************************************)
\* new Date(x) of an x that is no date: getTime() is NaN
InvalidDate == [valid |-> FALSE, day |-> 0]

InvalidDeadline == [present |-> TRUE, valid |-> FALSE, day |-> 0]

\* targetValue absent, 0, negative, in range and past the range
ValTargets ==
  {<<"whole-quran", <<>>>>}
  \cup {<<"specific-juz", tv>> : tv \in {<<>>, <<0>>, <<-1>>, <<1>>, <<30>>, <<31>>}}
  \cup {<<"specific-surah", tv>> : tv \in {<<>>, <<0>>, <<-1>>, <<1>>, <<114>>, <<115>>}}

ValStartDates == {DateOf(FirstDay), InvalidDate}

\* No deadline, an invalid one, and deadlines the day before FirstDay, on it
\* and the day after
ValDeadlines ==
  {NoDeadline, InvalidDeadline} \cup {DeadlineOn(FirstDay + o) : o \in {-1, 0, 1}}

ValGoals ==
  {[target |-> t[1], targetValue |-> t[2], unit |-> u, dailyAmount |-> d,
    startDate |-> s, deadline |-> dl, daysOfWeek |-> w] :
     t \in ValTargets, u \in {"pages", "ayahs"}, d \in {-1, 0, 1},
     s \in ValStartDates, dl \in ValDeadlines, w \in {{}, {3}, {7}}}

ValInit ==
  /\ StoreInit
  /\ GenIdle
  /\ LoopIdle
  /\ StreakIdle
  /\ valGoal \in {<<g>> : g \in ValGoals}
  /\ valResult = <<>>

Validate ==
  /\ valGoal # <<>>
  /\ valResult = <<>>
  /\ valResult' = <<validateGoal(valGoal[1])>>
  /\ UNCHANGED <<valGoal, storeVars, genVars, loopVars, streakVars>>

ValNext == Validate

ValSpec == ValInit /\ [][ValNext]_vars

(***************************************************************************)
(* calculateStreaks on its own, for every list of StreakPlans              *)
(***************************************************************************)
\* The longest list handed to calculateStreaks
MaxStreakLen == 4

\* The dates of its assignments: from three days before today to tomorrow
StreakDays == (FirstDay - 3)..(FirstDay + 1)

StreakAssignment(date, completed) ==
  [NewAssignment(date, AyahKey(1, 1), AyahKey(1, 1), 1, 1) EXCEPT !.completed = completed]

\* The lists of at most MaxStreakLen assignments on different days, in any
\* order
StreakPlans ==
  UNION {{[i \in 1..n |-> StreakAssignment(days[i], flags[i])] :
            days \in {f \in [1..n -> StreakDays] :
                        \A i \in 1..n : \A j \in 1..n : i # j => f[i] # f[j]},
            flags \in [1..n -> BOOLEAN]} :
         n \in 0..MaxStreakLen}

StreakInit ==
  /\ StoreInit
  /\ GenIdle
  /\ LoopIdle
  /\ ValIdle
  /\ streakPlan \in StreakPlans
  /\ streakResult = <<>>

ComputeStreaks ==
  /\ streakResult = <<>>
  /\ streakResult' = <<calculateStreaks(streakPlan, today)>>
  /\ streakPlan' = SpreadSource(streakPlan)
  /\ UNCHANGED <<storeVars, genVars, loopVars, valVars>>

StreakNext == ComputeStreaks

StreakSpec == StreakInit /\ [][StreakNext]_vars

(***************************************************************************)
(* The store with a plan completed day after day from its first day        *)
(***************************************************************************)
ProgressNext ==
  \/ \E goal \in ProgressGoals : setGoal(goal)
  \/ \E date \in {FirstDay + totalDaysCompleted} :
        totalDaysCompleted < Len(plan) /\ markDayAsComplete(date)

ProgressSpec == Init /\ [][ProgressNext]_vars

(***************************************************************************)
(* Properties                                                              *)
(***************************************************************************)
\* The place of a verse reference in the text, 1..6236; 0 when the value is
\* not the reference of a verse of the text
VerseId(v) ==
  LET parsed == parseAyahReference(v)
  IN IF parsed.tag # "ok" THEN 0
     ELSE IF parsed.surahId \notin 1..SurahCount THEN 0
     ELSE IF parsed.ayahNumber \notin 1..SurahAyahCount[parsed.surahId] THEN 0
     ELSE SurahFirstAyahId[parsed.surahId] + parsed.ayahNumber - 1

\* generatePlan has been called on genGoal and has given genResult
Generated == genGoal # <<>> /\ genResult # <<>>

\* C1, for the scope WHOLE_TEXT: the plan of a goal that passes validation,
\* has no deadline and names weekdays 0..6 is returned, is not empty, and
\* covers the text: with unit 'ayahs' its first assignment starts at verse 1:1
\* and its last ends at verse 114:6; with the other units its first assignment
\* starts at page 1 and its last ends at page 604.
C1_PlanCoversWholeText ==
  (/\ Generated
   /\ genGoal[1].target = "whole-quran"
   /\ validateGoal(genGoal[1]).valid
   /\ ~genGoal[1].deadline.present
   /\ genGoal[1].daysOfWeek \subseteq AllWeekdays)
  => LET p == genResult[1].plan
     IN /\ genResult[1].outcome = "return"
        /\ Len(p) > 0
        /\ IF genGoal[1].unit = "ayahs"
           THEN p[1].fromAyah = AyahKey(1, 1) /\ p[Len(p)].toAyah = AyahKey(114, 6)
           ELSE p[1].fromPage = 1 /\ p[Len(p)].toPage = 604

\* C2: at the head of every pass of the date-enumeration loop the limit
\* 10 x ceil(total / dailyAmount) is a finite number and the passes made so
\* far are fewer than it, so the loop ends within that many passes.
C2_LoopEndsWithinLimit ==
  (/\ loopPc = "while"
   /\ ReadingDatesContinue(genGoal[1], calculateTotalUnits(genGoal[1]), loopSt))
  => LET maxIterations ==
           TimesTen(CeilDiv(calculateTotalUnits(genGoal[1]), genGoal[1].dailyAmount))
     IN ~maxIterations.inf /\ loopSt.iterations < maxIterations.n

\* C3: generatePlan never raises an exception, whatever the goal.
C3_GeneratePlanNeverThrows ==
  Generated => genResult[1].outcome # "throw"

\* C4: the goal the store holds passes validation: setGoal never stores a goal
\* that validateGoal rejects.
C4_StoredGoalIsValid ==
  currentGoal # <<>> => validateGoal(currentGoal[1]).valid

\* C5, for a NAMED_CHAPTER scope with unit VERSE: in the plan returned for a
\* valid goal every assignment's fromAyah and toAyah are verses of the chapter,
\* fromAyah not after toAyah.
C5_VersesWithinChapter ==
  (/\ Generated
   /\ genGoal[1].target = "specific-surah"
   /\ genGoal[1].unit = "ayahs"
   /\ validateGoal(genGoal[1]).valid
   /\ genResult[1].outcome = "return")
  => LET p == genResult[1].plan
         first == SurahFirstAyahId[genGoal[1].targetValue[1]]
         last == first + SurahAyahCount[genGoal[1].targetValue[1]] - 1
     IN \A i \in 1..Len(p) :
          /\ first <= VerseId(p[i].fromAyah)
          /\ VerseId(p[i].fromAyah) <= VerseId(p[i].toAyah)
          /\ VerseId(p[i].toAyah) <= last

\* The length of the longest run of consecutive completed assignments of p
LongestCompletedRun(p) ==
  Cardinality({n \in 1..Len(p) :
                 \E i \in 1..(Len(p) - n + 1) : \A j \in i..(i + n - 1) : p[j].completed})

\* C6: in every state of the store totalDaysCompleted is the number of
\* completed assignments of the stored plan and bestStreak is the best streak
\* recomputed from the stored plan, which is the longest run of consecutive
\* completed assignments in date order (the stored plan is in date order).
C6_StatsMatchPlan ==
  /\ totalDaysCompleted = Len(SelectSeq(plan, LAMBDA a : a.completed))
  /\ bestStreak = calculateStreaks(plan, today).best
  /\ \A i \in 1..Len(plan) : \A j \in 1..Len(plan) : i < j => plan[i].date < plan[j].date
  /\ bestStreak = LongestCompletedRun(plan)

\* markDayAsIncomplete has broken the longest run and bestStreak has dropped
C6_BestStreakDropped ==
  /\ lastOp.op = "markDayAsIncomplete"
  /\ lastOp.lowered
  /\ bestStreak >= 1

\* C7: when no completed assignment of the plan is dated today or yesterday,
\* the current streak calculateStreaks computes is 0.
C7_CurrentStreakNeedsRecentDay ==
  (~\E i \in 1..Len(plan) : plan[i].completed /\ plan[i].date \in {today - 1, today})
  => calculateStreaks(plan, today).current = 0

\* The goals of C8: the whole text by pages, every weekday, no deadline
WholeTextByPages(goal) ==
  /\ goal.target = "whole-quran"
  /\ goal.unit = "pages"
  /\ goal.dailyAmount >= 1
  /\ goal.daysOfWeek = AllWeekdays
  /\ ~goal.deadline.present

\* C8: the plan of the whole text by pages, d >= 1 pages a day, every weekday,
\* no deadline, has ceil(604 / d) assignments (604 for d = 1, 302 for d = 2),
\* the first from page 1 and the last to page 604.
C8_WholeTextByPages ==
  (Generated /\ WholeTextByPages(genGoal[1]))
  => LET p == genResult[1].plan
         d == genGoal[1].dailyAmount
     IN /\ genResult[1].outcome = "return"
        /\ Len(p) * d >= 604
        /\ (Len(p) - 1) * d < 604
        /\ (d = 1 => Len(p) = 604)
        /\ (d = 2 => Len(p) = 302)
        /\ p[1].fromPage = 1
        /\ p[Len(p)].toPage = 604

\* The plan of two pages a day has been generated
C8_TwoPagesADay ==
  /\ Generated
  /\ WholeTextByPages(genGoal[1])
  /\ genGoal[1].dailyAmount = 2
  /\ Len(genResult[1].plan) = 302

\* The goal of C9's example: the whole text, a page a day, every weekday,
\* deadline 30 days after the start
PageADayForThirtyDays(goal) ==
  /\ goal.target = "whole-quran"
  /\ goal.unit = "pages"
  /\ goal.dailyAmount = 1
  /\ goal.daysOfWeek = AllWeekdays
  /\ goal.deadline.present
  /\ goal.deadline.day = goal.startDate.day + 30

\* C9: no assignment of the plan of a goal with a deadline is dated after the
\* deadline day; the plan of the whole text, a page a day, every weekday,
\* deadline 30 days after the start has at most 31 assignments.
C9_NothingAfterDeadline ==
  (Generated /\ genGoal[1].deadline.present)
  => LET p == genResult[1].plan
     IN /\ \A i \in 1..Len(p) : p[i].date <= genGoal[1].deadline.day
        /\ (PageADayForThirtyDays(genGoal[1]) => Len(p) <= 31)

\* The deadline has cut the plan of the whole text short, on the deadline day
C9_CutAtDeadline ==
  /\ Generated
  /\ PageADayForThirtyDays(genGoal[1])
  /\ Len(genResult[1].plan) = 31
  /\ genResult[1].plan[31].date = genGoal[1].deadline.day

\* C10: every assignment is dated on a weekday of the goal's daysOfWeek; when
\* daysOfWeek is a single weekday, consecutive assignments are 7 days apart.
C10_DatesOnActiveWeekdays ==
  Generated
  => LET p == genResult[1].plan
     IN /\ \A i \in 1..Len(p) : (p[i].date % 7) \in genGoal[1].daysOfWeek
        /\ (Cardinality(genGoal[1].daysOfWeek) = 1
            => \A i \in 1..(Len(p) - 1) : p[i + 1].date - p[i].date = 7)

\* A plan of several assignments has been generated for Wednesdays only
C10_WednesdaysOnly ==
  /\ Generated
  /\ genGoal[1].daysOfWeek = {3}
  /\ Len(genResult[1].plan) >= 2
  /\ genResult[1].plan[2].date - genResult[1].plan[1].date = 7

\* validateGoal has been called on valGoal and has given valResult
Validated == valGoal # <<>> /\ valResult # <<>>

\* message is one of the errors
HasError(errors, message) == \E i \in 1..Len(errors) : errors[i] = message

\* The messages of validateGoal, in the order of its checks
ValidationMessages ==
  <<"At least one day of the week must be selected",
    "Invalid start date",
    "Invalid deadline",
    "Deadline must be after start date",
    "Daily amount must be greater than 0",
    "Target value is required for specific juz or surah goals",
    "Juz number must be between 1 and 30",
    "Surah number must be between 1 and 114">>

\* The place of a message in ValidationMessages, 0 for any other text
MessageRank(message) ==
  IF \E k \in 1..Len(ValidationMessages) : ValidationMessages[k] = message
  THEN CHOOSE k \in 1..Len(ValidationMessages) : ValidationMessages[k] = message
  ELSE 0

Streaked == streakResult # <<>>

\* The assignments of p, which are on different days, in date order
InDateOrder(p) ==
  [k \in 1..Len(p) |->
     p[CHOOSE i \in 1..Len(p) :
         Cardinality({j \in 1..Len(p) : p[j].date < p[i].date}) = k - 1]]

\* The number of completed assignments at the end of q with none undone
\* among them
TrailingRun(q) ==
  Cardinality({n \in 1..Len(q) : \A j \in (Len(q) - n + 1)..Len(q) : q[j].completed})

\* C12: when the assignment with the latest date is dated today and is
\* completed, and the N assignments before it in date order are completed
\* and the one before them is not, calculateStreaks gives current = N + 1.
C12_CurrentStreakEndingToday ==
  (/\ Streaked
   /\ Len(streakPlan) > 0
   /\ InDateOrder(streakPlan)[Len(streakPlan)].date = today
   /\ InDateOrder(streakPlan)[Len(streakPlan)].completed)
  => streakResult[1].current = TrailingRun(InDateOrder(streakPlan))

\* Today's assignment and the two before it are completed, the one before
\* them is not, the list is not in date order, and current is 3
C12_RunOfThreeEndingToday ==
  /\ Streaked
  /\ Len(streakPlan) = 4
  /\ InDateOrder(streakPlan) # streakPlan
  /\ InDateOrder(streakPlan)[4].date = today
  /\ TrailingRun(InDateOrder(streakPlan)) = 3
  /\ streakResult[1].current = 3

\* What a call that sets the completed flag of date's assignment to flag
\* leaves alone
MarkFrame(date, flag) ==
  /\ currentGoal' = currentGoal
  /\ Len(plan') = Len(plan)
  /\ \A i \in 1..Len(plan) :
       plan'[i] = IF plan[i].date = date THEN [plan[i] EXCEPT !.completed = flag]
                  ELSE plan[i]
  /\ Cardinality({i \in 1..Len(plan) : plan'[i] # plan[i]}) <= 1
  /\ ((~\E i \in 1..Len(plan) : plan[i].date = date) => plan' = plan)

\* C13: markDayAsComplete(date) and markDayAsIncomplete(date) leave
\* currentGoal, the length and order of the plan and every field of every
\* assignment as they were, but for the completed flag of the assignment of
\* that calendar day; at most one assignment changes, and none when no
\* assignment is of that day.
C13_MarkChangesOneFlag ==
  [][\A date \in MarkDays :
       /\ markDayAsComplete(date) => MarkFrame(date, TRUE)
       /\ markDayAsIncomplete(date) => MarkFrame(date, FALSE)]_vars

\* markDayAsComplete has completed one assignment of a plan of several
C13_OneOfSeveralMarked ==
  /\ lastOp.op = "markDayAsComplete"
  /\ Len(plan) >= 8
  /\ CompletedCount(plan) = 1

\* C14: a setGoal(goal) that returns stores the plan generatePlan(goal) gives
\* and nothing of the plan it replaces: every assignment is not completed and
\* not a catch-up, and totalDaysCompleted, currentStreak and bestStreak are 0,
\* whatever was completed before.
C14_SetGoalReplacesPlan ==
  [][\A goal \in StoreGoals :
       (setGoal(goal) /\ PlanOf[goal].outcome = "return")
         => /\ currentGoal' = <<goal>>
            /\ plan' = PlanOf[goal].plan
            /\ \A i \in 1..Len(plan') : ~plan'[i].completed /\ ~plan'[i].isCatchUpDay
            /\ totalDaysCompleted' = 0
            /\ currentStreak' = 0
            /\ bestStreak' = 0]_vars

\* setGoal has replaced a plan with completed assignments by a plan of several
\* assignments, none completed
C14_CompletedPlanReplaced ==
  /\ lastOp.op = "setGoal"
  /\ lastOp.lowered
  /\ Len(plan) >= 2
  /\ CompletedCount(plan) = 0

\* C15: after clearPlan the store is what it was at construction: no goal, an
\* empty plan, no time of update, all three statistics 0; the progress
\* percentage and the total count read 0 and there is no assignment for today.
C15_ClearPlanResets ==
  lastOp.op = "clearPlan"
    => /\ currentGoal = <<>>
       /\ plan = <<>>
       /\ lastUpdated = <<>>
       /\ currentStreak = 0
       /\ bestStreak = 0
       /\ totalDaysCompleted = 0
       /\ getProgressPercentage = 0
       /\ getTotalCount = 0
       /\ getTodaysAssignment = <<>>

\* clearPlan has cleared a store whose best streak was not 0
C15_ClearedAfterStreak ==
  /\ lastOp.op = "clearPlan"
  /\ lastOp.lowered
  /\ today > FirstDay

\* C16: the progress percentage is round(100 * completed / total), halves
\* upwards, for a plan that is not empty and 0 for an empty plan, an integer
\* of 0..100.
C16_ProgressIsRoundedRatio ==
  /\ getProgressPercentage \in 0..100
  /\ Len(plan) = 0 => getProgressPercentage = 0
  /\ Len(plan) > 0 =>
       getProgressPercentage
         = (2 * 100 * CompletedCount(plan) + Len(plan)) \div (2 * Len(plan))

\* The scope names a part or a chapter and its index is absent or out of range
UnresolvedIndex(goal) ==
  \/ goal.target = "specific-juz"
       /\ (goal.targetValue = <<>> \/ goal.targetValue[1] \notin 1..JuzCount)
  \/ goal.target = "specific-surah"
       /\ (goal.targetValue = <<>> \/ goal.targetValue[1] \notin 1..SurahCount)

\* The first day from the start date on that is of a selected weekday is
\* after the deadline
DeadlineBeforeFirstDay(goal) ==
  /\ goal.deadline.present
  /\ goal.deadline.valid
  /\ goal.daysOfWeek \cap (0..6) # {}
  /\ \A day \in goal.startDate.day..goal.deadline.day : day % 7 \notin goal.daysOfWeek

\* generatePlan has returned the empty plan
EmptyPlanReturned ==
  genResult[1].outcome = "return" /\ genResult[1].plan = <<>>

\* C17: generatePlan returns the empty plan, and raises nothing, for a part or
\* chapter whose index is absent or out of range, for a negative dailyAmount,
\* for an empty daysOfWeek, and for a deadline before the first day of a
\* selected weekday.
C17_DegenerateGoalEmptyPlan ==
  (/\ Generated
   /\ \/ UnresolvedIndex(genGoal[1])
      \/ genGoal[1].dailyAmount < 0
      \/ genGoal[1].daysOfWeek = {}
      \/ DeadlineBeforeFirstDay(genGoal[1]))
    => EmptyPlanReturned

\* generateReadingDates has returned the dates of loopSt for genGoal
DatesReturned == loopPc = "returned"

\* C18: for a goal without deadline, with dailyAmount >= 1 and daysOfWeek a
\* non-empty subset of 0..6, generateReadingDates returns the first
\* ceil(total / dailyAmount) days from the start date on that are of a
\* selected weekday, in increasing order and each once; the loop ends because
\* it has that many dates, with passes to spare under its cap.
C18_FirstDaysOfSelectedWeekdays ==
  (/\ DatesReturned
   /\ ~genGoal[1].deadline.present
   /\ genGoal[1].dailyAmount >= 1
   /\ genGoal[1].daysOfWeek # {}
   /\ genGoal[1].daysOfWeek \subseteq 0..6)
    => LET goal == genGoal[1]
           total == calculateTotalUnits(goal)
           needed == (total + goal.dailyAmount - 1) \div goal.dailyAmount
           dates == loopSt.dates
       IN /\ Len(dates) = needed
          /\ \A i \in 1..Len(dates) :
               dates[i] >= goal.startDate.day /\ dates[i] % 7 \in goal.daysOfWeek
          /\ \A i \in 1..(Len(dates) - 1) : dates[i] < dates[i + 1]
          /\ \A day \in goal.startDate.day..dates[Len(dates)] :
               day % 7 \in goal.daysOfWeek => \E i \in 1..Len(dates) : dates[i] = day
          /\ loopSt.iterations < 10 * needed

\* Seven Wednesdays have been returned for a goal that starts on a Friday
C18_SevenWednesdays ==
  /\ DatesReturned
  /\ ~genGoal[1].deadline.present
  /\ genGoal[1].daysOfWeek = {3}
  /\ genGoal[1].startDate.day = FirstDay + 2
  /\ Len(loopSt.dates) = 7
  /\ loopSt.iterations = 48

\* C19: best is the length of the longest run of consecutive completed
\* assignments in ascending date order, in whatever order the assignments are
\* handed in, and an assignment left undone between two completed ones parts
\* their runs; the array handed in is neither reordered nor changed.
C19_BestStreakInDateOrder ==
  [][ComputeStreaks
       => /\ streakResult'[1].best = LongestCompletedRun(InDateOrder(streakPlan))
          /\ streakPlan' = streakPlan]_vars

\* Three completed assignments stand together in the array and the one left
\* undone is between them in date order: best is 2
C19_RunSplitInDateOrder ==
  /\ Streaked
  /\ Len(streakPlan) = 4
  /\ CompletedCount(streakPlan) = 3
  /\ LongestCompletedRun(streakPlan) = 3
  /\ streakResult[1].best = 2

\* C20: for unit 'pages' and dailyAmount >= 1 the assignments tile the pages
\* of the scope: the first starts at the scope's starting page, each later one
\* at the page after the one before it ends, each ends at its fromPage +
\* dailyAmount - 1 or at the ending page, whichever is less, and none starts
\* after the ending page.
C20_PagesTileScope ==
  (/\ Generated
   /\ genGoal[1].unit = "pages"
   /\ genGoal[1].dailyAmount >= 1)
    => LET goal == genGoal[1]
           p == genResult[1].plan
           endingPage == getEndingPage(goal)
       IN /\ genResult[1].outcome = "return"
          /\ p # <<>> => p[1].fromPage = getStartingPage(goal)
          /\ \A i \in 1..(Len(p) - 1) : p[i + 1].fromPage = p[i].toPage + 1
          /\ \A i \in 1..Len(p) :
               /\ p[i].fromPage <= p[i].toPage
               /\ p[i].toPage <= endingPage
               /\ p[i].toPage = IF p[i].fromPage + goal.dailyAmount - 1 < endingPage
                                THEN p[i].fromPage + goal.dailyAmount - 1
                                ELSE endingPage

\* Part 30, pages 582 to 604, two pages a day: the twelfth day has the last
\* page alone
C20_LastDayCutAtEndingPage ==
  /\ Generated
  /\ genGoal[1].unit = "pages"
  /\ genGoal[1].dailyAmount = 2
  /\ genGoal[1].target = "specific-juz"
  /\ Len(genResult[1].plan) = 12
  /\ genResult[1].plan[1].fromPage = 582
  /\ genResult[1].plan[12].fromPage = 604
  /\ genResult[1].plan[12].toPage = 604

\* C21: for unit 'ayahs' and dailyAmount >= 1 each assignment ends at the
\* verse dailyAmount - 1 verses after the one it starts at, counting through
\* the chapters in order, the next assignment starts at the verse after it,
\* and no assignment starts after the scope's ending verse.
C21_VersesAdvanceInOrder ==
  (/\ Generated
   /\ genGoal[1].unit = "ayahs"
   /\ genGoal[1].dailyAmount >= 1
   /\ genResult[1].outcome = "return")
    => LET goal == genGoal[1]
           p == genResult[1].plan
       IN /\ \A i \in 1..Len(p) :
               /\ VerseId(p[i].fromAyah) >= 1
               /\ VerseId(p[i].toAyah) = VerseId(p[i].fromAyah) + goal.dailyAmount - 1
               /\ VerseId(p[i].fromAyah) <= VerseId(getEndingAyah(goal))
          /\ \A i \in 1..(Len(p) - 1) :
               VerseId(p[i + 1].fromAyah) = VerseId(p[i].toAyah) + 1

\* C22: in every state of the store
\* 0 <= currentStreak <= bestStreak <= totalDaysCompleted <= number of
\* assignments of the plan.
C22_StatisticsOrdered ==
  /\ 0 <= currentStreak
  /\ currentStreak <= bestStreak
  /\ bestStreak <= totalDaysCompleted
  /\ totalDaysCompleted <= Len(plan)

\* Two days completed with a day left undone between them, in a plan of more
\* days: the best streak is below the number of days completed
C22_BestBelowCompleted ==
  /\ lastOp.op = "markDayAsComplete"
  /\ currentStreak = 1
  /\ bestStreak = 1
  /\ totalDaysCompleted = 2
  /\ Len(plan) > 2

\* C23, as claimed: the progress percentage is 100 only when every assignment
\* of a plan that is not empty is completed, and 0 only when none is.
C23_ExtremesOnlyAtExtremes ==
  /\ getProgressPercentage = 100 => (Len(plan) > 0 /\ CompletedCount(plan) = Len(plan))
  /\ getProgressPercentage = 0 => CompletedCount(plan) = 0

\* C23, as it holds: the progress percentage is 100 only when at most one
\* assignment in 200 is left undone, and 0 only when fewer than one in 200 is
\* completed; in a plan of fewer than 200 assignments that is every one and
\* none.
C23_ExtremesWithinHalfPercent ==
  /\ getProgressPercentage = 100 =>
       /\ Len(plan) > 0
       /\ 200 * (Len(plan) - CompletedCount(plan)) <= Len(plan)
  /\ getProgressPercentage = 0 => 200 * CompletedCount(plan) < Len(plan) \/ Len(plan) = 0
  /\ Len(plan) < 200 => C23_ExtremesOnlyAtExtremes

\* 201 of 202 assignments are completed and the progress percentage is 100
C23_HundredWithOneLeft ==
  /\ Len(plan) = 202
  /\ CompletedCount(plan) = 201
  /\ getProgressPercentage = 100

\* C24: for every goal that validateGoal accepts and that has no deadline,
\* generatePlan returns, and the plan it returns is not empty.
C24_ValidGoalHasPlan ==
  (/\ Generated
   /\ validateGoal(genGoal[1]).valid
   /\ ~genGoal[1].deadline.present)
    => /\ genResult[1].outcome = "return"
       /\ genResult[1].plan # <<>>

\* What holds of a toggle of date to flag, the step from plan to plan', and of
\* the toggle that may follow it: the same toggle again changes nothing; a
\* toggle on another day gives the plan it gives when it comes first; and the
\* statistics stored are those of the plan stored, whatever led to it
ToggleCommutes(date, flag) ==
  /\ SetCompleted(plan', date, flag) = plan'
  /\ \A other \in MarkDays \ {date} : \A otherFlag \in BOOLEAN :
       SetCompleted(plan', other, otherFlag)
         = SetCompleted(SetCompleted(plan, other, otherFlag), date, flag)
  /\ totalDaysCompleted' = CompletedCount(plan')
  /\ bestStreak' = calculateStreaks(plan', today').best

\* C25: markDayAsComplete(d) a second time leaves the plan as the first left
\* it; markDayAsIncomplete(d) after markDayAsComplete(d) gives back the plan
\* in which d was not completed; and toggles on two different days give the
\* same plan, totalDaysCompleted and bestStreak in either order.
C25_TogglesCommute ==
  [][\A date \in MarkDays :
       /\ markDayAsComplete(date)
            => /\ ToggleCommutes(date, TRUE)
               /\ (\A i \in 1..Len(plan) : plan[i].date = date => ~plan[i].completed)
                    => SetCompleted(plan', date, FALSE) = plan
       /\ markDayAsIncomplete(date) => ToggleCommutes(date, FALSE)]_vars

\* markDayAsIncomplete has taken the third day back out of a run of three
C25_ThirdDayTakenBack ==
  /\ lastOp.op = "markDayAsIncomplete"
  /\ totalDaysCompleted = 2
  /\ bestStreak = 2
  /\ Len(plan) > 3
=============================================================================
